---- MODULE Spec2Model ----
(***************************************************************************)
(* A model of EncodeConverter (src/src/main.rs): the two transcode         *)
(* functions, the codec calls they make, the worker threads that run them  *)
(* and the per-frame update callback of CodeTranserApp that dispatches the *)
(* workers and polls the result channel.                                   *)
(*                                                                         *)
(* Text is a sequence of Unicode code points, file content a sequence of   *)
(* bytes (0..255).  The codecs follow the decoders and encoders of the     *)
(* Encoding Standard, which Encoding::decode and Encoding::encode of the   *)
(* encoding_rs crate implement; the two-byte indexes hold the entries the  *)
(* bounded inputs below can reach, and a lookup outside them yields        *)
(* OutOfModel, which NoOutOfModel shows is never produced.                 *)
(***************************************************************************)
EXTENDS Integers, Sequences, FiniteSets, TLC

(* ------------------------------ bounds -------------------------------- *)

\* longest byte sequence enumerated as input of a conversion
MaxLen == 3
\* conversions dispatched in a run of SpecRace, where they overlap
MaxConv == 2
\* conversions dispatched in a run of Spec, where every widget is used
MaxSession == 1

(* ------------------------------ codecs -------------------------------- *)

\* enum Encoding
Encodings == {"Utf8", "Gbk", "Big5", "Iso88592"}
\* the encodings the user picks in the two combo boxes
Picked == {"Utf8", "Gbk"}

\* U+FFFD REPLACEMENT CHARACTER
REPLACEMENT == 65533
\* what a decoder yields for a malformed sequence before replacement
Malformed == -1
\* a table lookup the model holds no entry for
OutOfModel == 1114112

\* index gb18030 (two-byte part), as <<lead, trail, code point>>
GbkIndex ==
    { <<130, 107, 20468>>, <<130, 135, 20503>>, <<135, 167, 22169>>, <<168, 66, 729>>,
      <<184, 156, 31522>>, <<189, 239, 26020>>, <<191, 97, 32284>>, <<191, 189, 25335>>,
      <<195, 97, 32970>>, <<202, 146, 34157>>, <<208, 97, 34891>>, <<208, 208, 34892>>,
      <<208, 214, 20804>>, <<214, 97, 35589>>, <<214, 208, 20013>>, <<214, 214, 31181>>,
      <<226, 162, 29463>>, <<227, 150, 37533>>, <<228, 184, 28051>>, <<239, 187, 38168>>,
      <<239, 191, 38175>>, <<243, 209, 31537>>, <<245, 215, 36381>> }

\* index Big5, as <<lead, trail, code point>>
Big5Index ==
    { <<163, 187, 729>>, <<164, 164, 20013>>, <<164, 231, 26020>>, <<165, 83, 20804>>,
      <<166, 230, 34892>>, <<171, 254, 25335>>, <<174, 254, 28051>>, <<189, 239, 36381>>,
      <<191, 189, 34157>>, <<207, 250, 31181>>, <<208, 97, 32970>>, <<208, 208, 20468>>,
      <<208, 214, 20503>>, <<214, 97, 29463>>, <<214, 208, 31522>>, <<214, 214, 31537>>,
      <<228, 184, 37533>>, <<234, 212, 32284>>, <<238, 164, 35589>>, <<239, 191, 22169>>,
      <<248, 192, 34891>> }

\* index ISO-8859-2: the code point of byte 128 + (i - 1)
Iso88592Index ==
    << 128, 129, 130, 131, 132, 133, 134, 135,
       136, 137, 138, 139, 140, 141, 142, 143,
       144, 145, 146, 147, 148, 149, 150, 151,
       152, 153, 154, 155, 156, 157, 158, 159,
       160, 260, 728, 321, 164, 317, 346, 167,
       168, 352, 350, 356, 377, 173, 381, 379,
       176, 261, 731, 322, 180, 318, 347, 711,
       184, 353, 351, 357, 378, 733, 382, 380,
       340, 193, 194, 258, 196, 313, 262, 199,
       268, 201, 280, 203, 282, 205, 206, 270,
       272, 323, 327, 211, 212, 336, 214, 215,
       344, 366, 218, 368, 220, 221, 354, 223,
       341, 225, 226, 259, 228, 314, 263, 231,
       269, 233, 281, 235, 283, 237, 238, 271,
       273, 324, 328, 243, 244, 337, 246, 247,
       345, 367, 250, 369, 252, 253, 355, 729 >>

\* the non-ASCII code points whose presence in, or absence from, each of the
\* two-byte indexes above is decided by them
Repertoire ==
    { 173, 184, 214, 228, 272, 355, 729, 20013, 20468, 20503,
      20804, 22169, 25335, 26020, 28051, 29463, 31181, 31522, 31537, 32284,
      32970, 34157, 34891, 34892, 35589, 36381, 37533, 38168, 38175, 65533 }

InRange(b, lo, hi) == lo <= b /\ b <= hi

\* the code point of a two-byte sequence in an index
IndexCodePoint(index, lead, trail) ==
    IF \E e \in index : e[1] = lead /\ e[2] = trail
    THEN (CHOOSE e \in index : e[1] = lead /\ e[2] = trail)[3]
    ELSE OutOfModel

\* the two bytes of a code point in an index, <<>> when it has none
IndexPointer(index, cp) ==
    IF \E e \in index : e[3] = cp
    THEN LET e == CHOOSE e \in index : e[3] = cp IN <<e[1], e[2]>>
    ELSE <<>>

(* UTF-8 decoder: one code point, or one Malformed per maximal ill-formed   *)
(* subpart, from position i on.                                             *)
RECURSIVE Utf8From(_, _)
Utf8From(bs, i) ==
    IF i > Len(bs) THEN <<>>
    ELSE LET b == bs[i]
             has(k) == i + k <= Len(bs)
             cont(k) == has(k) /\ InRange(bs[i + k], 128, 191)
             lo2 == IF b = 224 THEN 160 ELSE IF b = 240 THEN 144 ELSE 128
             hi2 == IF b = 237 THEN 159 ELSE IF b = 244 THEN 143 ELSE 191
             second == has(1) /\ InRange(bs[i + 1], lo2, hi2)
         IN  IF b <= 127 THEN <<b>> \o Utf8From(bs, i + 1)
             ELSE IF InRange(b, 194, 223) THEN
                 IF second
                 THEN <<(b - 192) * 64 + (bs[i + 1] - 128)>> \o Utf8From(bs, i + 2)
                 ELSE <<Malformed>> \o Utf8From(bs, i + 1)
             ELSE IF InRange(b, 224, 239) THEN
                 IF ~second THEN <<Malformed>> \o Utf8From(bs, i + 1)
                 ELSE IF ~cont(2) THEN <<Malformed>> \o Utf8From(bs, i + 2)
                 ELSE <<(b - 224) * 4096 + (bs[i + 1] - 128) * 64 + (bs[i + 2] - 128)>>
                      \o Utf8From(bs, i + 3)
             ELSE IF InRange(b, 240, 244) THEN
                 IF ~second THEN <<Malformed>> \o Utf8From(bs, i + 1)
                 ELSE IF ~cont(2) THEN <<Malformed>> \o Utf8From(bs, i + 2)
                 ELSE IF ~cont(3) THEN <<Malformed>> \o Utf8From(bs, i + 3)
                 ELSE <<(b - 240) * 262144 + (bs[i + 1] - 128) * 4096
                        + (bs[i + 2] - 128) * 64 + (bs[i + 3] - 128)>>
                      \o Utf8From(bs, i + 4)
             ELSE <<Malformed>> \o Utf8From(bs, i + 1)

(* gb18030 decoder (the decoder of GBK).  The four-byte form is followed    *)
(* up to its lookup in the ranges index, which the model does not hold.     *)
RECURSIVE GbkFrom(_, _)
GbkFrom(bs, i) ==
    IF i > Len(bs) THEN <<>>
    ELSE LET b == bs[i]
             has(k) == i + k <= Len(bs)
         IN  IF b <= 127 THEN <<b>> \o GbkFrom(bs, i + 1)
             ELSE IF b = 128 THEN <<8364>> \o GbkFrom(bs, i + 1)
             ELSE IF b = 255 THEN <<Malformed>> \o GbkFrom(bs, i + 1)
             ELSE IF ~has(1) THEN <<Malformed>>
             ELSE IF InRange(bs[i + 1], 48, 57) THEN
                 IF ~has(2) THEN <<Malformed>>
                 ELSE IF ~InRange(bs[i + 2], 129, 254)
                 THEN <<Malformed>> \o GbkFrom(bs, i + 1)
                 ELSE IF ~has(3) THEN <<Malformed>>
                 ELSE IF ~InRange(bs[i + 3], 48, 57)
                 THEN <<Malformed>> \o GbkFrom(bs, i + 1)
                 ELSE <<OutOfModel>> \o GbkFrom(bs, i + 4)
             ELSE IF InRange(bs[i + 1], 64, 126) \/ InRange(bs[i + 1], 128, 254)
             THEN <<IndexCodePoint(GbkIndex, b, bs[i + 1])>> \o GbkFrom(bs, i + 2)
             ELSE IF bs[i + 1] <= 127
             THEN <<Malformed>> \o GbkFrom(bs, i + 1)
             ELSE <<Malformed>> \o GbkFrom(bs, i + 2)

(* Big5 decoder.                                                            *)
RECURSIVE Big5From(_, _)
Big5From(bs, i) ==
    IF i > Len(bs) THEN <<>>
    ELSE LET b == bs[i]
         IN  IF b <= 127 THEN <<b>> \o Big5From(bs, i + 1)
             ELSE IF b = 128 \/ b = 255 THEN <<Malformed>> \o Big5From(bs, i + 1)
             ELSE IF i + 1 > Len(bs) THEN <<Malformed>>
             ELSE IF InRange(bs[i + 1], 64, 126) \/ InRange(bs[i + 1], 161, 254)
             THEN <<IndexCodePoint(Big5Index, b, bs[i + 1])>> \o Big5From(bs, i + 2)
             ELSE IF bs[i + 1] <= 127
             THEN <<Malformed>> \o Big5From(bs, i + 1)
             ELSE <<Malformed>> \o Big5From(bs, i + 2)

(* single-byte decoder of ISO-8859-2: every byte is mapped.                 *)
Iso88592All(bs) ==
    [i \in 1..Len(bs) |-> IF bs[i] <= 127 THEN bs[i] ELSE Iso88592Index[bs[i] - 127]]

(* UTF-16 decoder (reached through a byte order mark only): code units of   *)
(* two bytes, surrogate pairs, one Malformed for a lone surrogate or a      *)
(* trailing odd byte.                                                       *)
RECURSIVE Utf16From(_, _, _)
Utf16From(bs, i, be) ==
    IF i > Len(bs) THEN <<>>
    ELSE IF i + 1 > Len(bs) THEN <<Malformed>>
    ELSE LET unit(k) == IF be THEN bs[k] * 256 + bs[k + 1] ELSE bs[k + 1] * 256 + bs[k]
             u == unit(i)
         IN  IF InRange(u, 55296, 56319) THEN
                 IF i + 2 > Len(bs) THEN <<Malformed>>
                 ELSE IF i + 3 > Len(bs) THEN <<Malformed>>
                 ELSE IF InRange(unit(i + 2), 56320, 57343)
                 THEN <<65536 + (u - 55296) * 1024 + (unit(i + 2) - 56320)>>
                      \o Utf16From(bs, i + 4, be)
                 ELSE <<Malformed>> \o Utf16From(bs, i + 2, be)
             ELSE IF InRange(u, 56320, 57343) THEN <<Malformed>> \o Utf16From(bs, i + 2, be)
             ELSE <<u>> \o Utf16From(bs, i + 2, be)

\* the byte order marks Encoding::for_bom knows
HasBom(bs, bom) == Len(bs) >= Len(bom) /\ SubSeq(bs, 1, Len(bom)) = bom

\* Encoding::decode before replacement: the encoding a byte order mark names
\* overrides the given one and the mark is removed
DecodeRaw(enc, bs) ==
    IF HasBom(bs, <<239, 187, 191>>) THEN Utf8From(bs, 4)
    ELSE IF HasBom(bs, <<255, 254>>) THEN Utf16From(bs, 3, FALSE)
    ELSE IF HasBom(bs, <<254, 255>>) THEN Utf16From(bs, 3, TRUE)
    ELSE CASE enc = "Utf8" -> Utf8From(bs, 1)
           [] enc = "Gbk" -> GbkFrom(bs, 1)
           [] enc = "Big5" -> Big5From(bs, 1)
           [] enc = "Iso88592" -> Iso88592All(bs)

\* malformed sequences become U+FFFD
Replace(raw) == [i \in 1..Len(raw) |-> IF raw[i] = Malformed THEN REPLACEMENT ELSE raw[i]]

\* the third component of decode's result
HadErrors(enc, bs) == \E i \in 1..Len(DecodeRaw(enc, bs)) : DecodeRaw(enc, bs)[i] = Malformed

\* the first component of decode's result
Decode(enc, bs) == Replace(DecodeRaw(enc, bs))

\* the UTF-8 bytes of one code point
Utf8Bytes(cp) ==
    IF cp <= 127 THEN <<cp>>
    ELSE IF cp <= 2047 THEN <<192 + (cp \div 64), 128 + (cp % 64)>>
    ELSE IF cp <= 65535
    THEN <<224 + (cp \div 4096), 128 + ((cp \div 64) % 64), 128 + (cp % 64)>>
    ELSE <<240 + (cp \div 262144), 128 + ((cp \div 4096) % 64),
           128 + ((cp \div 64) % 64), 128 + (cp % 64)>>

RECURSIVE Digits(_)
Digits(n) == IF n < 10 THEN <<48 + n>> ELSE Digits(n \div 10) \o <<48 + (n % 10)>>

\* the decimal numeric character reference that replaces an unmappable code point
Ncr(cp) == <<38, 35>> \o Digits(cp) \o <<59>>

\* whether the encoder of enc has bytes for cp
Mappable(enc, cp) ==
    \/ cp <= 127
    \/ enc = "Utf8"
    \/ enc = "Gbk" /\ (cp = 8364 \/ IndexPointer(GbkIndex, cp) # <<>>)
    \/ enc = "Big5" /\ IndexPointer(Big5Index, cp) # <<>>
    \/ enc = "Iso88592" /\ \E i \in 1..128 : Iso88592Index[i] = cp

\* the bytes the encoder of enc gives one code point
EncodeOne(enc, cp) ==
    IF cp = OutOfModel THEN <<OutOfModel>>
    ELSE IF enc = "Utf8" THEN Utf8Bytes(cp)
    ELSE IF cp <= 127 THEN <<cp>>
    ELSE IF enc = "Iso88592" THEN
        IF Mappable(enc, cp)
        THEN <<127 + (CHOOSE i \in 1..128 : Iso88592Index[i] = cp)>>
        ELSE Ncr(cp)
    ELSE IF enc = "Gbk" /\ cp = 8364 THEN <<128>>
    ELSE IF cp \notin Repertoire THEN <<OutOfModel>>
    ELSE IF Mappable(enc, cp)
    THEN IndexPointer(IF enc = "Gbk" THEN GbkIndex ELSE Big5Index, cp)
    ELSE Ncr(cp)

\* Encoding::encode: the first component of its result
RECURSIVE Encode(_, _)
Encode(enc, text) ==
    IF text = <<>> THEN <<>> ELSE EncodeOne(enc, Head(text)) \o Encode(enc, Tail(text))

\* String::from_utf8_lossy: no byte order mark handling
FromUtf8Lossy(bs) == Replace(Utf8From(bs, 1))

\* str::as_bytes: a Rust string is its UTF-8 bytes
AsBytes(text) == Encode("Utf8", text)

\* the conversion with the two encodings taken in the other order
ConvertSwapped(bs, from_, to_) == Encode(from_, Decode(to_, bs))

Ok(v) == [ok |-> TRUE, val |-> v]
Err(e) == [ok |-> FALSE, val |-> e]

\* the decode and encode lines shared by transcode_text and transcode_file
Convert(bs, from_, to_) == Encode(to_, Decode(from_, bs))

\* a conversion of text that refuses input malformed in the source encoding
transcode_text_strict(input, from_, to_) ==
    IF HadErrors(from_, Encode("Utf8", input))
    THEN Err(<<63>>)
    ELSE Ok(Replace(Utf8From(Encode(to_, Decode(from_, Encode("Utf8", input))), 1)))

\* fn transcode_text
transcode_text(input, from_, to_) == Ok(FromUtf8Lossy(Convert(AsBytes(input), from_, to_)))

(* ------------------------------ strings ------------------------------- *)

\* A Rust String of the application: a literal ASCII part (messages, paths)
\* or a text of code points; the empty string is Text(<<>>).
Text(cps) == [lit |-> "", text |-> cps]
Str(l) == [lit |-> l, text |-> <<>>]

\* fn t: the two keys that reach the state (the Chinese labels are written
\* in pinyin); any other key is returned as it is
t(key, lang_) ==
    IF lang_ = "Zh"
    THEN CASE key = "status_none" -> "zan wu zhuang tai"
           [] key = "transcoding..." -> "zheng zai zhuan ma..."
           [] OTHER -> key
    ELSE CASE key = "status_none" -> "No Status"
           [] key = "transcoding..." -> "Transcoding..."
           [] OTHER -> key

(* ---------------------------- file system ----------------------------- *)

\* Option::None of input_file and output_file
None == "None"
\* what the file-open dialog can return, and the save dialog
InputPaths == {"in.txt", "missing.txt"}
OutputPaths == {"out.txt"}
Paths == InputPaths \cup OutputPaths
\* a path with no file
NoFile == <<-1>>
\* the content of in.txt: GBK for U+4E2D followed by a byte no codec but
\* ISO-8859-2 accepts
InContent == <<214, 208, 255>>
\* what out.txt holds before the first conversion, when it exists
OldContent == <<97>>

\* io::Error::to_string of the failures modelled
NotFound == "No such file or directory (os error 2)"
Denied == "Permission denied (os error 13)"
NoSpace == "No space left on device (os error 28)"

\* std::fs::read
FsRead(files, path) == IF files[path] = NoFile THEN Err(Str(NotFound)) ELSE Ok(files[path])

\* std::fs::write: it creates or truncates the file, then writes the bytes;
\* "denied" fails before the file is touched, "nospace" after it was truncated
WriteOutcomes == {"ok", "denied", "nospace"}
FsWrite(files, path, bytes, outcome) ==
    CASE outcome = "ok" -> [ret |-> Ok(Str("")), files |-> [files EXCEPT ![path] = bytes]]
      [] outcome = "denied" -> [ret |-> Err(Str(Denied)), files |-> files]
      [] outcome = "nospace" -> [ret |-> Err(Str(NoSpace)), files |-> [files EXCEPT ![path] = <<>>]]

(* ------------------------------- state -------------------------------- *)

VARIABLES
    lang, mode, from, to,          \* struct CodeTranserApp
    input_text, output_text,
    input_file, output_file, status,
    sender, receiver,              \* the id of the channel held, 0 for None
    uipc,                          \* where update is: "widgets" or "poll"
    nconv,                         \* channels created so far
    workers,                       \* the spawned threads still running, by channel id
    queue,                         \* the messages in the channel of receiver
    fs,                            \* the files
    consumed,                      \* how often update received the message of each channel
    rt                             \* the run of the conversion functions on their own

appvars == <<lang, mode, from, to, input_text, output_text, input_file, output_file, status,
             sender, receiver>>
vars == <<lang, mode, from, to, input_text, output_text, input_file, output_file, status,
          sender, receiver, uipc, nconv, workers, queue, fs, consumed, rt>>

\* what the user can type into a text box
Texts == {<<>>, <<20013>>}

RtOff == [pc |-> "off"]

\* impl Default for CodeTranserApp
Default ==
    /\ lang = "Zh"
    /\ mode = "Text"
    /\ from = "Utf8"
    /\ to = "Gbk"
    /\ input_text = Text(<<>>)
    /\ output_text = Text(<<>>)
    /\ input_file = None
    /\ output_file = None
    /\ status = Str(t("status_none", "Zh"))
    /\ sender = 0
    /\ receiver = 0

Init ==
    /\ Default
    /\ uipc = "widgets"
    /\ nconv = 0
    /\ workers = <<>>
    /\ queue = <<>>
    /\ \E old \in {NoFile, OldContent} :
           fs = [p \in Paths |-> CASE p = "in.txt" -> InContent
                                   [] p = "out.txt" -> old
                                   [] OTHER -> NoFile]
    /\ consumed = <<>>
    /\ rt = RtOff

(* ------------------------------ workers ------------------------------- *)

Add(f, k, v) == [x \in DOMAIN f \cup {k} |-> IF x = k THEN v ELSE f[x]]
Remove(f, k) == [x \in DOMAIN f \ {k} |-> f[x]]

\* the closure of thread::spawn in ui_text_mode, with what it captured
TextWorker(input, from_, to_) ==
    [kind |-> "Text", input |-> input, inp |-> None, outp |-> None, from |-> from_, to |-> to_,
     pc |-> "run", encoded |-> <<>>, wrote |-> FALSE, ret |-> Ok(<<>>), res |-> Str("")]

\* the closure of thread::spawn in ui_file_mode, with what it captured
FileWorker(inp, outp, from_, to_) ==
    [kind |-> "File", input |-> <<>>, inp |-> inp, outp |-> outp, from |-> from_, to |-> to_,
     pc |-> "read", encoded |-> <<>>, wrote |-> FALSE, ret |-> Ok(Str("")), res |-> Str("")]

\* transcode_text(..).unwrap_or_else(|e| e)
TextResult(ret) == Text(ret.val)

\* transcode_file(..).map(|_| format!("Transcode finished: {}", ..)).unwrap_or_else(..)
FileResult(ret, outp) ==
    IF ret.ok THEN Str("Transcode finished: " \o outp) ELSE Str("Error: " \o ret.val.lit)

\* a text worker that reads the fields of the application when it runs
WorkerTextLive(w) ==
    /\ w \in DOMAIN workers
    /\ workers[w].pc = "run"
    /\ LET ret == Ok(Replace(Utf8From(Encode(to, Decode(from, Encode("Utf8", input_text.text))), 1)))
       IN  workers' = [workers EXCEPT ![w].ret = ret, ![w].res = TextResult(ret),
                                      ![w].pc = "send"]
    /\ UNCHANGED <<appvars, uipc, nconv, queue, fs, consumed, rt>>

\* the text worker runs transcode_text
WorkerText(w) ==
    /\ w \in DOMAIN workers
    /\ workers[w].pc = "run"
    /\ LET ret == transcode_text(workers[w].input, workers[w].from, workers[w].to)
       IN  workers' = [workers EXCEPT ![w].ret = ret, ![w].res = TextResult(ret),
                                      ![w].pc = "send"]
    /\ UNCHANGED <<appvars, uipc, nconv, queue, fs, consumed, rt>>

\* a read whose failure is replaced by empty content
WorkerReadUnchecked(w) ==
    /\ w \in DOMAIN workers
    /\ workers[w].pc = "read"
    /\ LET data == FsRead(fs, workers[w].inp)
           bytes == IF data.ok THEN data.val ELSE <<>>
       IN  workers' = [workers EXCEPT
                           ![w].encoded = Encode(workers[w].to, Decode(workers[w].from, bytes)),
                           ![w].pc = "write"]
    /\ UNCHANGED <<appvars, uipc, nconv, queue, fs, consumed, rt>>

\* transcode_file up to the write: the read, with ? returning its error, the
\* decode and the encode
WorkerRead(w) ==
    /\ w \in DOMAIN workers
    /\ workers[w].pc = "read"
    /\ LET data == FsRead(fs, workers[w].inp)
       IN  IF data.ok
           THEN workers' = [workers EXCEPT
                               ![w].encoded = Convert(data.val, workers[w].from, workers[w].to),
                               ![w].pc = "write"]
           ELSE workers' = [workers EXCEPT
                               ![w].ret = data,
                               ![w].res = FileResult(data, workers[w].outp),
                               ![w].pc = "send"]
    /\ UNCHANGED <<appvars, uipc, nconv, queue, fs, consumed, rt>>

\* transcode_file from the write on
WorkerWrite(w) ==
    /\ w \in DOMAIN workers
    /\ workers[w].pc = "write"
    /\ \E outcome \in WriteOutcomes :
           LET r == FsWrite(fs, workers[w].outp, workers[w].encoded, outcome)
           IN  /\ fs' = r.files
               /\ workers' = [workers EXCEPT
                                 ![w].wrote = TRUE,
                                 ![w].ret = r.ret,
                                 ![w].res = FileResult(r.ret, workers[w].outp),
                                 ![w].pc = "send"]
    /\ UNCHANGED <<appvars, uipc, nconv, queue, consumed, rt>>

\* a send into one channel shared by all workers
WorkerSendShared(w) ==
    /\ w \in DOMAIN workers
    /\ workers[w].pc = "send"
    /\ queue' = Append(queue, [conv |-> w, kind |-> workers[w].kind, str |-> workers[w].res])
    /\ workers' = [x \in DOMAIN workers \ {w} |-> workers[x]]
    /\ UNCHANGED <<appvars, uipc, nconv, fs, consumed, rt>>

\* tx.send(res).ok(): the message is queued while the receiver of this
\* worker's channel exists; once update has replaced it the send fails and the
\* failure is ignored.  The thread ends.
WorkerSend(w) ==
    /\ w \in DOMAIN workers
    /\ workers[w].pc = "send"
    /\ queue' = IF receiver = w
                THEN Append(queue, [conv |-> w, kind |-> workers[w].kind,
                                    str |-> workers[w].res])
                ELSE queue
    /\ workers' = Remove(workers, w)
    /\ UNCHANGED <<appvars, uipc, nconv, fs, consumed, rt>>

(* ------------------------- CodeTranserApp::update --------------------- *)

\* One call of update handles at most one widget interaction (lines 151 to
\* 185) and then polls the channel (lines 187 to 195).  A worker's send
\* between the two commutes with every interaction but a click on start, so
\* a frame is one step, except that a click on start is a step (uipc becomes
\* "poll") and its poll the next step of the interface; workers may act in
\* between.

\* a poll that reads the message and leaves it in the channel
TryRecvPeek(m, o, s) ==
    IF receiver # 0 /\ queue # <<>>
    THEN /\ queue' = queue
         /\ consumed' = [consumed EXCEPT ![Head(queue).conv] = IF @ < 2 THEN @ + 1 ELSE @]
         /\ IF m = "Text" THEN output_text' = Head(queue).str /\ status' = s
            ELSE status' = Head(queue).str /\ output_text' = o
    ELSE /\ UNCHANGED <<queue, consumed>> /\ output_text' = o /\ status' = s

\* if let Some(rx) = &self.receiver { if let Ok(res) = rx.try_recv() { .. } }
\* with m, o and s the mode, output_text and status the widgets left
TryRecv(m, o, s) ==
    IF receiver # 0 /\ queue # <<>>
    THEN /\ queue' = Tail(queue)
         /\ consumed' = [consumed EXCEPT ![Head(queue).conv] = IF @ < 2 THEN @ + 1 ELSE @]
         /\ IF m = "Text"
            THEN output_text' = Head(queue).str /\ status' = s
            ELSE status' = Head(queue).str /\ output_text' = o
    ELSE /\ UNCHANGED <<queue, consumed>>
         /\ output_text' = o
         /\ status' = s

\* let (tx, rx) = mpsc::channel(); self.sender = ..; self.receiver = ..;
\* thread::spawn(..): the receiver held before is dropped with its messages
Dispatch(worker, limit) ==
    /\ nconv < limit
    /\ nconv' = nconv + 1
    /\ sender' = nconv + 1
    /\ receiver' = nconv + 1
    /\ queue' = <<>>
    /\ workers' = Add(workers, nconv + 1, worker)
    /\ consumed' = Add(consumed, nconv + 1, 0)

\* a frame without interaction
Idle ==
    /\ uipc = "widgets"
    /\ TryRecv(mode, output_text, status)
    /\ UNCHANGED <<lang, mode, from, to, input_text, input_file, output_file,
                   sender, receiver, uipc, nconv, workers, fs, rt>>

\* the two language buttons
ClickLang ==
    /\ uipc = "widgets"
    /\ \E l \in {"Zh", "En"} : lang' = l
    /\ TryRecv(mode, output_text, status)
    /\ UNCHANGED <<mode, from, to, input_text, input_file, output_file,
                   sender, receiver, uipc, nconv, workers, fs, rt>>

\* the two selectable values of the mode
SelectMode ==
    /\ uipc = "widgets"
    /\ \E m \in {"Text", "File"} : mode' = m /\ TryRecv(m, output_text, status)
    /\ UNCHANGED <<lang, from, to, input_text, input_file, output_file,
                   sender, receiver, uipc, nconv, workers, fs, rt>>

\* encoding_combo(ui, "from", &mut self.from)
SelectFrom ==
    /\ uipc = "widgets"
    /\ \E e \in Picked : from' = e
    /\ TryRecv(mode, output_text, status)
    /\ UNCHANGED <<lang, mode, to, input_text, input_file, output_file,
                   sender, receiver, uipc, nconv, workers, fs, rt>>

\* encoding_combo(ui, "to", &mut self.to)
SelectTo ==
    /\ uipc = "widgets"
    /\ \E e \in Picked : to' = e
    /\ TryRecv(mode, output_text, status)
    /\ UNCHANGED <<lang, mode, from, input_text, input_file, output_file,
                   sender, receiver, uipc, nconv, workers, fs, rt>>

\* ui.text_edit_multiline(&mut self.input_text)
EditInput ==
    /\ uipc = "widgets"
    /\ mode = "Text"
    /\ \E x \in Texts : input_text' = Text(x)
    /\ TryRecv(mode, output_text, status)
    /\ UNCHANGED <<lang, mode, from, to, input_file, output_file,
                   sender, receiver, uipc, nconv, workers, fs, rt>>

\* ui.text_edit_multiline(&mut self.output_text)
EditOutput ==
    /\ uipc = "widgets"
    /\ mode = "Text"
    /\ \E x \in Texts : TryRecv(mode, Text(x), status)
    /\ UNCHANGED <<lang, mode, from, to, input_text, input_file, output_file,
                   sender, receiver, uipc, nconv, workers, fs, rt>>

\* the start button of ui_text_mode
StartText(limit) ==
    /\ uipc = "widgets"
    /\ mode = "Text"
    /\ Dispatch(TextWorker(input_text.text, from, to), limit)
    /\ uipc' = "poll"
    /\ UNCHANGED <<lang, mode, from, to, input_text, output_text, input_file, output_file,
                   status, fs, rt>>

\* self.input_file = rfd::FileDialog::new().pick_file()
PickInput ==
    /\ uipc = "widgets"
    /\ mode = "File"
    /\ \E p \in InputPaths \cup {None} : input_file' = p
    /\ TryRecv(mode, output_text, status)
    /\ UNCHANGED <<lang, mode, from, to, input_text, output_file,
                   sender, receiver, uipc, nconv, workers, fs, rt>>

\* self.output_file = rfd::FileDialog::new().set_file_name(..).save_file()
PickOutput ==
    /\ uipc = "widgets"
    /\ mode = "File"
    /\ \E p \in OutputPaths \cup {None} : output_file' = p
    /\ TryRecv(mode, output_text, status)
    /\ UNCHANGED <<lang, mode, from, to, input_text, input_file,
                   sender, receiver, uipc, nconv, workers, fs, rt>>

\* a start button that asks for one of the two files only
StartFileEither(limit) ==
    /\ uipc = "widgets"
    /\ mode = "File"
    /\ IF input_file # None \/ output_file # None
       THEN /\ status' = Str(t("transcoding...", lang))
            /\ nconv < limit
            /\ nconv' = nconv + 1 /\ sender' = nconv + 1 /\ receiver' = nconv + 1
            /\ queue' = <<>>
            /\ workers' = [x \in DOMAIN workers \cup {nconv + 1} |->
                              IF x = nconv + 1
                              THEN FileWorker(input_file, output_file, from, to)
                              ELSE workers[x]]
            /\ consumed' = [x \in DOMAIN consumed \cup {nconv + 1} |->
                               IF x = nconv + 1 THEN 0 ELSE consumed[x]]
       ELSE /\ status' = Str("Please select input and output files")
            /\ UNCHANGED <<sender, receiver, nconv, workers, queue, consumed>>
    /\ uipc' = "poll"
    /\ UNCHANGED <<lang, mode, from, to, input_text, output_text, input_file, output_file,
                   fs, rt>>

\* the start button of ui_file_mode
StartFile(limit) ==
    /\ uipc = "widgets"
    /\ mode = "File"
    /\ IF input_file # None /\ output_file # None
       THEN /\ status' = Str(t("transcoding...", lang))
            /\ Dispatch(FileWorker(input_file, output_file, from, to), limit)
       ELSE /\ status' = Str("Please select input and output files")
            /\ UNCHANGED <<sender, receiver, nconv, workers, queue, consumed>>
    /\ uipc' = "poll"
    /\ UNCHANGED <<lang, mode, from, to, input_text, output_text, input_file, output_file,
                   fs, rt>>

\* the poll of a frame in which start was clicked
Poll ==
    /\ uipc = "poll"
    /\ uipc' = "widgets"
    /\ TryRecv(mode, output_text, status)
    /\ UNCHANGED <<lang, mode, from, to, input_text, input_file, output_file,
                   sender, receiver, nconv, workers, fs, rt>>

Worker ==
    \E w \in DOMAIN workers :
        WorkerText(w) \/ WorkerRead(w) \/ WorkerWrite(w) \/ WorkerSend(w)

\* a session in which the user touches every widget
Next ==
    \/ Idle \/ ClickLang \/ SelectMode \/ SelectFrom \/ SelectTo
    \/ EditInput \/ EditOutput \/ StartText(MaxSession)
    \/ PickInput \/ PickOutput \/ StartFile(MaxSession)
    \/ Poll \/ Worker

Spec == Init /\ [][Next]_vars

\* a session of overlapping conversions: the user switches the mode, types
\* the input, picks the files and clicks start
NextRace ==
    \/ Idle \/ SelectMode \/ EditInput \/ StartText(MaxConv)
    \/ PickInput \/ PickOutput \/ StartFile(MaxConv)
    \/ Poll \/ Worker

SpecRace == Init /\ [][NextRace]_vars

(* ------------------- the conversion functions alone ------------------- *)

\* the bytes the enumerated inputs are made of: ASCII a, the two bytes of
\* U+4E2D in GBK, and a byte no multi-byte codec accepts
ByteAlphabet == {97, 214, 208, 255}
BoundedBytes == UNION {[1..n -> ByteAlphabet] : n \in 0..MaxLen}

\* "hello"
Hello == <<104, 101, 108, 108, 111>>
\* further inputs, each with its source and target: U+4E2D in UTF-8;
\* U+02D9 U+0163, which ISO-8859-2 encodes as FF FE; U+9518 U+7E1C, which
\* GBK encodes as EF BB BF 61
Cases ==
    { <<Hello, "Utf8", "Gbk">>,
      <<<<228, 184, 173>>, "Utf8", "Gbk">>,
      <<<<228, 184, 173>>, "Utf8", "Big5">>,
      <<<<228, 184, 173>>, "Utf8", "Iso88592">>,
      <<<<203, 153, 197, 163>>, "Utf8", "Iso88592">>,
      <<<<233, 148, 152, 231, 184, 156>>, "Utf8", "Gbk">> }

RtStart(bs, from_, to_) ==
    [pc |-> "start", bytes |-> bs, from |-> from_, to |-> to_,
     fwd |-> <<>>, back |-> <<>>, same |-> <<>>, tfwd |-> <<>>, tback |-> <<>>]

InitCodec ==
    /\ Default
    /\ uipc = "widgets"
    /\ nconv = 0
    /\ workers = <<>>
    /\ queue = <<>>
    /\ fs = [p \in Paths |-> NoFile]
    /\ consumed = <<>>
    /\ \/ \E bs \in BoundedBytes, f \in Encodings, g \in Encodings : rt = RtStart(bs, f, g)
       \/ \E c \in Cases : rt = RtStart(c[1], c[2], c[3])

\* the bytes converted from the source to the target
Forward ==
    /\ rt.pc = "start"
    /\ rt' = [rt EXCEPT !.pc = "fwd", !.fwd = Convert(rt.bytes, rt.from, rt.to)]
    /\ UNCHANGED <<appvars, uipc, nconv, workers, queue, fs, consumed>>

\* that output converted from the target back to the source
Backward ==
    /\ rt.pc = "fwd"
    /\ rt' = [rt EXCEPT !.pc = "back", !.back = Convert(rt.fwd, rt.to, rt.from)]
    /\ UNCHANGED <<appvars, uipc, nconv, workers, queue, fs, consumed>>

\* the bytes converted from the source to the source
Direct ==
    /\ rt.pc = "back"
    /\ rt' = [rt EXCEPT !.pc = "direct", !.same = Convert(rt.bytes, rt.from, rt.from)]
    /\ UNCHANGED <<appvars, uipc, nconv, workers, queue, fs, consumed>>

\* the bytes are a Rust string (well-formed UTF-8)
IsStr(bs) == \A i \in 1..Len(Utf8From(bs, 1)) : Utf8From(bs, 1)[i] # Malformed

\* transcode_text on the string there and back
TextTrip ==
    /\ rt.pc = "direct"
    /\ IsStr(rt.bytes)
    /\ LET there == transcode_text(Utf8From(rt.bytes, 1), rt.from, rt.to).val
       IN  rt' = [rt EXCEPT !.pc = "done", !.tfwd = there,
                            !.tback = transcode_text(there, rt.to, rt.from).val]
    /\ UNCHANGED <<appvars, uipc, nconv, workers, queue, fs, consumed>>

NextCodec == Forward \/ Backward \/ Direct \/ TextTrip

SpecCodec == InitCodec /\ [][NextCodec]_vars

(* ------------------------- bounds of the tables ------------------------ *)

HasOut(sq) == \E i \in 1..Len(sq) : sq[i] = OutOfModel

\* no state holds a value computed from a lookup outside the indexes
NoOutOfModel ==
    /\ rt.pc # "off" =>
           ~HasOut(rt.fwd) /\ ~HasOut(rt.back) /\ ~HasOut(rt.same)
           /\ ~HasOut(rt.tfwd) /\ ~HasOut(rt.tback)
    /\ \A w \in DOMAIN workers : ~HasOut(workers[w].encoded) /\ ~HasOut(workers[w].res.text)
    /\ \A p \in Paths : ~HasOut(fs[p])

(* ------------------------------ claims -------------------------------- *)

\* update received the message of channel c in this step
Received(c) == consumed'[c] # consumed[c]

\* C1: a conversion superseded by a later start click before its result was
\* consumed is never stored: whenever update receives a message it is the
\* message of the latest conversion dispatched, taken from the channel held,
\* and that message is what a display field gets.
C1_SupersededNeverStored ==
    [][\A c \in DOMAIN consumed :
           Received(c) =>
               /\ c = nconv /\ c = receiver
               /\ queue # <<>> /\ Head(queue).conv = c
               /\ (output_text' = Head(queue).str \/ status' = Head(queue).str)]_vars

\* the first worker ran to its end unconsumed after a second start click, and
\* the second conversion's result was stored
C1_Witness ==
    /\ nconv = 2
    /\ 1 \notin DOMAIN workers
    /\ consumed[1] = 0
    /\ consumed[2] = 1

\* C2: the result of a conversion dispatched in text mode is written to
\* output_text only, that of one dispatched in file mode to status only.
C2_StoredByDispatchMode ==
    [][\A c \in DOMAIN consumed :
           Received(c) =>
               IF Head(queue).kind = "Text"
               THEN output_text' = Head(queue).str /\ status' = status
               ELSE status' = Head(queue).str /\ output_text' = output_text]_vars

\* C3: a file worker whose input cannot be read returns an error and never
\* reaches the write.
C3_ReadFailureWritesNothing ==
    \A w \in DOMAIN workers :
        (workers[w].kind = "File" /\ workers[w].pc # "read" /\ fs[workers[w].inp] = NoFile)
        => /\ workers[w].pc = "send"
           /\ ~workers[w].ret.ok
           /\ ~workers[w].wrote
           /\ workers[w].res = Str("Error: " \o NotFound)

\* a worker returned from a missing input next to an output file that exists
C3_Witness ==
    \E w \in DOMAIN workers :
        /\ workers[w].kind = "File" /\ workers[w].pc = "send"
        /\ fs[workers[w].inp] = NoFile
        /\ fs[workers[w].outp] = OldContent

\* an interface step that polls the channel it held before the step
PollStep == Idle \/ SelectMode \/ EditInput \/ PickInput \/ PickOutput \/ Poll

\* C4 as amended: a result is stored at most once; the poll of the first
\* frame after the send stores it, unless a start click in that frame
\* dispatched a conversion (the receiver is replaced and the result dropped).
C4_AtMostOnce ==
    /\ [](\A c \in DOMAIN consumed : consumed[c] <= 1)
    /\ [][(PollStep /\ receiver # 0 /\ queue # <<>>)
             => /\ Received(Head(queue).conv)
                /\ queue' = <<>>
                /\ (output_text' = Head(queue).str \/ status' = Head(queue).str)]_vars

\* both conversions of a run were consumed, once each
C4_Witness ==
    /\ nconv = 2
    /\ consumed[1] = 1
    /\ consumed[2] = 1

\* C4 as stated: every result sent into the slot held is stored; it leaves the
\* slot in no other way.
C4_EveryResultStored ==
    [][queue # <<>> =>
           \/ queue' # <<>> /\ Head(queue') = Head(queue)
           \/ Received(Head(queue).conv)]_vars

\* the messages of a failed file conversion
ErrorMessages == {Str("Error: " \o NotFound), Str("Error: " \o Denied), Str("Error: " \o NoSpace)}

\* C5: the error of a failed file conversion is displayed in status: when
\* update receives it, status holds it.
C5_ErrorShownInStatus ==
    [][\A c \in DOMAIN consumed :
           (Received(c) /\ Head(queue).kind = "File" /\ Head(queue).str \in ErrorMessages)
           => status' = Head(queue).str]_vars

\* C6: at most one conversion is in flight: two workers never run at the
\* same time.
C6_OneWorker == Cardinality(DOMAIN workers) <= 1

\* the round trip of rt has been computed
Tripped == rt.pc \in {"direct", "done"}

\* every character the bytes decode to has a mapping in the encoding
Representable(enc, bs, from_) ==
    \A i \in 1..Len(Decode(from_, bs)) : Mappable(enc, Decode(from_, bs)[i])

\* the bytes begin with a byte order mark
BeginsWithBom(bs) ==
    HasBom(bs, <<239, 187, 191>>) \/ HasBom(bs, <<255, 254>>) \/ HasBom(bs, <<254, 255>>)

IoErrors == {Str(NotFound), Str(Denied), Str(NoSpace)}

\* C8: a text worker always returns a success value; a file worker returns an
\* error only from its read or its write, and one whose input can be read
\* reaches the write with the converted bytes, valid input or not.
C8_OnlyIoErrors ==
    \A w \in DOMAIN workers :
        /\ (workers[w].kind = "Text" /\ workers[w].pc = "send") => workers[w].ret.ok
        /\ (workers[w].kind = "File" /\ workers[w].pc = "send") =>
               /\ ~workers[w].ret.ok => workers[w].ret.val \in IoErrors
               /\ ~workers[w].wrote => workers[w].ret = FsRead(fs, workers[w].inp)
               /\ fs[workers[w].inp] # NoFile =>
                      /\ workers[w].wrote
                      /\ workers[w].encoded =
                             Convert(fs[workers[w].inp], workers[w].from, workers[w].to)

\* a file worker succeeded on an input that is malformed in its source
\* encoding, and the output file holds the converted bytes
C8_Witness ==
    \E w \in DOMAIN workers :
        /\ workers[w].kind = "File" /\ workers[w].pc = "send"
        /\ fs[workers[w].inp] # NoFile
        /\ HadErrors(workers[w].from, fs[workers[w].inp])
        /\ workers[w].ret.ok
        /\ fs[workers[w].outp] = workers[w].encoded
        /\ workers[w].encoded # <<>>

\* what a worker captured at the click
Request(r) == <<r.kind, r.input, r.inp, r.outp, r.from, r.to>>

\* C9: a worker holds the values of the click that spawned it, no later step
\* changes them, and what it computes and sends is their conversion.
C9_RequestImmutable ==
    [][/\ \A w \in DOMAIN workers' \ DOMAIN workers :
              Request(workers'[w]) =
                  IF mode = "Text"
                  THEN <<"Text", input_text.text, None, None, from, to>>
                  ELSE <<"File", <<>>, input_file, output_file, from, to>>
       /\ \A w \in DOMAIN workers \cap DOMAIN workers' :
              /\ Request(workers'[w]) = Request(workers[w])
              /\ (workers[w].pc = "run" /\ workers'[w].pc = "send") =>
                     workers'[w].res =
                         Text(FromUtf8Lossy(Convert(AsBytes(workers[w].input),
                                                    workers[w].from, workers[w].to)))
              /\ (workers[w].pc = "read" /\ workers'[w].pc = "write") =>
                     workers'[w].encoded =
                         Convert(fs[workers[w].inp], workers[w].from, workers[w].to)
              /\ (workers[w].pc = "write" /\ workers'[w].pc = "send" /\ workers'[w].ret.ok) =>
                     fs'[workers[w].outp] = workers[w].encoded
              /\ (workers[w].pc = "send" /\ workers'[w].pc = "send") =>
                     workers'[w].res = workers[w].res
       /\ \A w \in DOMAIN workers \ DOMAIN workers' :
              (receiver = w /\ sender' = sender) =>
                  queue' = Append(queue, [conv |-> w, kind |-> workers[w].kind,
                                          str |-> workers[w].res])]_vars

\* a text worker has computed its result after the user changed the input
\* text and both encodings
C9_Witness ==
    \E w \in DOMAIN workers :
        /\ workers[w].kind = "Text" /\ workers[w].pc = "send"
        /\ workers[w].input # input_text.text
        /\ workers[w].from # from
        /\ workers[w].to # to

\* C10: a start click in file mode with a file unselected changes status and
\* nothing else of the application; a file worker is spawned only with both
\* files selected, and status is then the "transcoding..." label.
C10_StartNeedsBothFiles ==
    [][/\ (uipc = "widgets" /\ uipc' = "poll" /\ mode = "File"
              /\ (input_file = None \/ output_file = None))
          => /\ status' = Str("Please select input and output files")
             /\ UNCHANGED <<lang, mode, from, to, input_text, output_text, input_file,
                            output_file, sender, receiver, nconv, workers, queue,
                            consumed, fs>>
       /\ \A w \in DOMAIN workers' \ DOMAIN workers :
              workers'[w].kind = "File" =>
                  /\ input_file # None /\ output_file # None
                  /\ workers'[w].inp = input_file /\ workers'[w].outp = output_file
                  /\ status' = Str(t("transcoding...", lang))]_vars

\* start was clicked with no output file while an earlier conversion is
\* still running
C10_Witness ==
    /\ uipc = "poll"
    /\ mode = "File"
    /\ output_file = None
    /\ status = Str("Please select input and output files")
    /\ receiver = 1
    /\ 1 \in DOMAIN workers
====
